---- MODULE Spec2Model ----
(***************************************************************************)
(* Model of Code/plot.py: a linear script that defines literal data        *)
(* tables for a Radon-222 decay simulation, evaluates the analytic decay   *)
(* law on the time samples and draws two matplotlib figures.               *)
(*                                                                         *)
(* Number representation.  TLC integers are 32 bit, the script works on    *)
(* IEEE-754 doubles.  A double that comes from a decimal literal c/K (or    *)
(* from a correctly rounded quotient) is kept exactly as a record          *)
(*     [c, K, d, s]   standing for   c/K + d/(K * 2^s)                     *)
(* where c/K is the decimal value, 2^-s is the unit in the last place of   *)
(* the double and d is the rounding residue (|d| <= K/2), obtained with    *)
(* modular arithmetic.  Atom counts are integer multiples of 10^10 below   *)
(* 2^53, so they are exact doubles and are kept as integers in units of    *)
(* 10^10 atoms.  The result of np.exp, which no integer model reproduces   *)
(* bit for bit, is kept as a rigorous enclosure [lo, hi].                  *)
(***************************************************************************)
EXTENDS Integers, Sequences, FiniteSets, TLC

-----------------------------------------------------------------------------
(* Integer helpers *)

Max(a, b) == IF a >= b THEN a ELSE b

Abs(a) == IF a >= 0 THEN a ELSE -a

CeilDiv(a, b) == (a + b - 1) \div b

RECURSIVE MulMod(_, _, _)
(* (a * b) % m without forming a * b; a < m, and 3 * m fits 32 bits. *)
MulMod(a, b, m) ==
    IF b = 0 THEN 0
    ELSE LET h == MulMod(a, b \div 2, m)
         IN  (2 * h + (b % 2) * a) % m

RECURSIVE PowMod2(_, _)
(* 2^s % m *)
PowMod2(s, m) == IF s = 0 THEN 1 % m ELSE (2 * PowMod2(s - 1, m)) % m

RECURSIVE ExpUp(_, _, _)
(* the least j >= 0 with c * 2^j >= K   (0 < c < K) *)
ExpUp(c, K, j) == IF c >= K THEN j ELSE ExpUp(2 * c, K, j + 1)

RECURSIVE ExpDown(_, _, _)
(* the greatest e >= 0 with K * 2^e <= c   (c >= K), by halving c *)
ExpDown(c, K, e) == IF c \div 2 >= K THEN ExpDown(c \div 2, K, e + 1) ELSE e

(* floor(log2(c / K)) for c > 0 *)
Log2Floor(c, K) ==
    IF c >= K THEN ExpDown(c, K, 0) ELSE -ExpUp(c, K, 0)

-----------------------------------------------------------------------------
(* IEEE-754 binary64, round to nearest, ties to even *)

Zero(K) == [c |-> 0, K |-> K, d |-> 0, s |-> 0]

RECURSIVE Pow2(_)
Pow2(n) == IF n = 0 THEN 1 ELSE 2 * Pow2(n - 1)

(* c / K is exactly a power of two *)
IsPow2(c, K) ==
    LET e == Log2Floor(c, K)
    IN  IF e >= 0 THEN K * Pow2(e) = c ELSE c * Pow2(-e) = K

(* The double nearest to the rational  c/K + r/(K * 2^t)  (|r| < 2^t, so   *)
(* c/K is its leading part).  s is 52 minus the binary exponent of the     *)
(* value and u the finer of the units 2^-s, 2^-t.  The mantissa is         *)
(*     M = round((c * 2^u + r * 2^(u-t)) / (K * 2^(u-s)))                  *)
(* and the residue d = K*M - c*2^s follows from the numerator modulo the   *)
(* divisor (modulo twice the divisor for the parity that decides a tie).   *)
Round(c, K, r, t) ==
    IF c = 0 THEN Zero(K)
    ELSE LET e   == Log2Floor(c, K) - (IF r < 0 /\ IsPow2(c, K) THEN 1 ELSE 0)
             s   == 52 - e
             u   == IF r = 0 THEN s ELSE Max(s, t)
             Kd  == K * Pow2(u - s)
             low == IF r = 0 THEN 0 ELSE r * Pow2(u - t)
             R2  == (MulMod(c % (2 * Kd), PowMod2(u, 2 * Kd), 2 * Kd) + low) % (2 * Kd)
             R   == R2 % Kd
             odd == R2 >= Kd       \* floor(numerator / divisor) is odd
             up  == (2 * R > Kd) \/ (2 * R = Kd /\ odd)
         IN  [c |-> c, K |-> K, s |-> s,
              d |-> (low - R + (IF up THEN Kd ELSE 0)) \div Pow2(u - s)]

(* A decimal literal c / K as Python parses it. *)
Lit(c, K) == Round(c, K, 0, 0)

(* a / D for an integer D >= 1 that is an exact double: the quotient of    *)
(* the exact value of a by D, rounded once.                                *)
DblDivInt(a, D) == Round(a.c, a.K * D, a.d, a.s)

(* n * a for a small integer n >= 0: the exact product, rounded once *)
DblMulInt(n, a) == Round(n * a.c, a.K, n * a.d, a.s)

IsZero(a) == a.c = 0 /\ a.d = 0

(* The finer of the units of a and b, and the residue of a in that unit. *)
CommonS(a, b) ==
    IF IsZero(a) THEN b.s ELSE IF IsZero(b) THEN a.s ELSE Max(a.s, b.s)

ResidueAt(a, S) == IF IsZero(a) THEN 0 ELSE a.d * Pow2(S - a.s)

(* a = b and a <= b for doubles over the same K.  The residues are below   *)
(* K * 2^-s <= K * 2^-30 < 1/K apart from the decimal parts, so the order   *)
(* is decided by c and, when the decimal parts agree, by the residues.     *)
DblEq(a, b) ==
    /\ a.c = b.c
    /\ ResidueAt(a, CommonS(a, b)) = ResidueAt(b, CommonS(a, b))

DblLeq(a, b) ==
    \/ a.c < b.c
    \/ /\ a.c = b.c
       /\ ResidueAt(a, CommonS(a, b)) <= ResidueAt(b, CommonS(a, b))

DblLess(a, b) == DblLeq(a, b) /\ ~DblEq(a, b)

(* a - b for 0 <= b <= a <= 2b or b = 0: the difference of two doubles     *)
(* that close is a double (Sterbenz), so the subtraction does not round.   *)
DblSub(a, b) ==
    LET S == CommonS(a, b)
    IN  [c |-> a.c - b.c, K |-> a.K,
         d |-> ResidueAt(a, S) - ResidueAt(b, S), s |-> S]

-----------------------------------------------------------------------------
(* np.exp and the analytic law, as enclosures *)

(* Fixed-point scale of the enclosures of exp, and the number of series    *)
(* terms summed before the tail bound.                                     *)
Scale == 10^4

NTerms == 14

RECURSIVE SeriesLo(_, _, _, _)
(* sum of the terms x^j/j!, j = k..NTerms, each rounded down; t is term k *)
SeriesLo(x, t, k, acc) ==
    IF k > NTerms THEN acc
    ELSE SeriesLo(x, (t * x) \div (Scale * (k + 1)), k + 1, acc + t)

RECURSIVE SeriesHi(_, _, _, _)
(* the same rounded up, plus twice term NTerms+1, which bounds the tail    *)
(* while x / (NTerms + 2) <= 1/2                                           *)
SeriesHi(x, t, k, acc) ==
    IF k > NTerms THEN acc + 2 * t
    ELSE SeriesHi(x, CeilDiv(t * x, Scale * (k + 1)), k + 1, acc + t)

(* ExpNeg with the sign of the exponent lost: exp(x) *)
ExpNeg_SignError(x) ==
    [lo |-> SeriesLo(x.lo, Scale, 0, 0), hi |-> SeriesHi(x.hi, Scale, 0, 0)]

(* exp(-x) for x in [x.lo, x.hi] / Scale, x >= 0, as [lo, hi] / Scale:     *)
(* 1 / exp(x), with exp(x) enclosed by its series.  exp(-0.0) is exactly 1.*)
ExpNeg(x) ==
    [lo |-> (Scale * Scale) \div SeriesHi(x.hi, Scale, 0, 0),
     hi |-> CeilDiv(Scale * Scale, SeriesLo(x.lo, Scale, 0, 0))]

(* lambda * t, lambda in units of 10^-10 /s and t a double of centiseconds *)
(* (K = 100), as an enclosure at Scale: lam * c / 10^8, formed in two      *)
(* halves of c to stay within 32 bits.  A product that is not exactly zero *)
(* is widened by one unit for the roundings of the double product.         *)
LambdaT(lam, t) ==
    LET A == lam * (t.c \div 10^4)
        B == lam * (t.c % 10^4)
        q == (A + B \div 10^4) \div 10^4
    IN  IF lam = 0 \/ t.c = 0 THEN [lo |-> 0, hi |-> 0]
        ELSE [lo |-> Max(q - 1, 0), hi |-> q + 2]

(* n0 * e for an exact n0 (units of 10^10) and an enclosure e at Scale,     *)
(* formed in two halves of n0 to stay within 32 bits; a product by exactly *)
(* 1.0 is exact, any other is widened by one unit for the roundings of     *)
(* np.exp and of the product.                                              *)
ScaleBy(n0, e) ==
    IF e.lo = Scale /\ e.hi = Scale THEN [lo |-> n0, hi |-> n0]
    ELSE LET h == n0 \div Scale
             l == n0 % Scale
         IN  [lo |-> h * e.lo + (l * e.lo) \div Scale - 1,
              hi |-> h * e.hi + CeilDiv(l * e.hi, Scale) + 1]

(* Analitik with the factor N0 left out: np.exp(-lambda_decay * waktu) *)
Analitik_Unscaled(n0, lam, w) ==
    [i \in 1..Len(w) |-> ScaleBy(1, ExpNeg(LambdaT(lam, w[i])))]

(* N0 * np.exp(-lambda_decay * waktu), element by element *)
Analitik(n0, lam, w) ==
    [i \in 1..Len(w) |-> ScaleBy(n0, ExpNeg(LambdaT(lam, w[i])))]

-----------------------------------------------------------------------------
(* The literal tables of the script *)

(* Literal_waktu with two digits of 396420.48 transposed (396420.84) *)
Literal_waktu_Typo ==
    <<0, 13214016, 26428032, 39642084, 52856064, 66070080,
      79284096, 92498112, 105712128, 118926144, 132140160>>

(* waktu, in centiseconds *)
Literal_waktu ==
    <<0, 13214016, 26428032, 39642048, 52856064, 66070080,
      79284096, 92498112, 105712128, 118926144, 132140160>>

(* simulated atom counts, in units of 10^10 atoms *)
Literal_N_dt_33035 ==
    <<100000, 75030, 56290, 42230, 31680, 23770, 17830, 13380, 10040, 7532, 5651>>

Literal_N_dt_16518 ==
    <<100000, 75410, 56870, 42890, 32350, 24390, 18400, 13870, 10460, 7890, 5950>>

(* Literal_N_dt_6607 with 4.327e+14 and 3.273e+14 transposed *)
Literal_N_dt_6607_Swapped ==
    <<100000, 75640, 57210, 32730, 43270, 24760, 18730, 14170, 10710, 8104, 6130>>

Literal_N_dt_6607 ==
    <<100000, 75640, 57210, 43270, 32730, 24760, 18730, 14170, 10710, 8104, 6130>>

(* Literal_N_dt_3304 with 5.732e+14 typed as 5.372e+14 *)
Literal_N_dt_3304_Typo ==
    <<100000, 75710, 53720, 43400, 32860, 24880, 18840, 14260, 10800, 8176, 6190>>

Literal_N_dt_3304 ==
    <<100000, 75710, 57320, 43400, 32860, 24880, 18840, 14260, 10800, 8176, 6190>>

Literal_N_dt_1652 ==
    <<100000, 75750, 57380, 43460, 32920, 24940, 18890, 14310, 10840, 8211, 6220>>

(* relative errors in percent, in units of 10^-4 *)
Literal_error_33035 ==
    <<0, 10027, 19953, 29780, 39508, 49139, 58673, 68112, 77456, 86706, 95864>>

Literal_error_16518 ==
    <<0, 4906, 9789, 14647, 19482, 24293, 29080, 33844, 38584, 43301, 47995>>

(* Literal_error_6607 with 0.5802 typed as 5.8020 *)
Literal_error_6607_Typo ==
    <<0, 1938, 3872, 58020, 7729, 9652, 11571, 13487, 15398, 17306, 19211>>

Literal_error_6607 ==
    <<0, 1938, 3872, 5802, 7729, 9652, 11571, 13487, 15398, 17306, 19211>>

(* Literal_error_3304 with the entry 0.4815 left out *)
Literal_error_3304_Short ==
    <<0, 965, 1929, 2892, 3854, 5775, 6735, 7693, 8651, 9607>>

Literal_error_3304 ==
    <<0, 965, 1929, 2892, 3854, 4815, 5775, 6735, 7693, 8651, 9607>>

(* Literal_error_1652 starting one sample late, without the 0.0000 of t=0 *)
Literal_error_1652_NoZero ==
    <<481, 963, 1444, 1924, 2405, 2885, 3365, 3845, 4325, 4804, 5284>>

Literal_error_1652 ==
    <<0, 481, 963, 1444, 1924, 2405, 2885, 3365, 3845, 4325, 4804>>

(* N0 = 1.00e+15, in units of 10^10 atoms *)
Literal_N0 == 100000

(* lambda_decay = 2.0982e-06, in units of 10^-10 per second *)
Literal_lambda_decay == 20982

(* np.array of decimal literals with denominator K *)
Array(lits, K) == [i \in 1..Len(lits) |-> Lit(lits[i], K)]

-----------------------------------------------------------------------------
(* The script, statement by statement *)

ArrayNames ==
    {"waktu", "waktu_hari", "N_dt_33035", "N_dt_16518", "N_dt_6607",
     "N_dt_3304", "N_dt_1652", "N_analitik", "error_33035", "error_16518",
     "error_6607", "error_3304", "error_1652"}

Asg(line, target) == [line |-> line, op |-> "assign", target |-> target]

Fig(line) == [line |-> line, op |-> "figure", figsize |-> <<10, 6>>]

(* plt.plot(waktu_hari, y [/ 1e14], fmt, label = ...) *)
Plt(line, y, div, fmt, lw, label) ==
    [line |-> line, op |-> "plot", x |-> "waktu_hari", y |-> y, div |-> div,
     fmt |-> fmt, linewidth |-> lw, label |-> label]

(* plt.xlabel / plt.ylabel / plt.title.  A text is the sequence of its     *)
(* pieces: runs of ASCII characters as they stand, any other character as  *)
(* its code point "U+XXXX" (the multiplication sign U+00D7 and the         *)
(* superscripts U+00B9, U+2074 of line 70).                                *)
Txt(line, op, text) == [line |-> line, op |-> op, text |-> text]

Call(line, op) == [line |-> line, op |-> op]

(* plt.grid(visible, alpha = ...) *)
GridCall(line, visible, alpha) ==
    [line |-> line, op |-> "grid", visible |-> visible, alpha |-> alpha]

(* import module as name *)
Imp(line, module, name) ==
    [line |-> line, op |-> "import", module |-> module, target |-> name]

Script ==
    << Imp(6, "matplotlib.pyplot", "plt"), Imp(7, "numpy", "np"),
       Asg(13, "waktu"), Asg(18, "waktu_hari"),
       Asg(23, "N_dt_33035"), Asg(27, "N_dt_16518"), Asg(31, "N_dt_6607"),
       Asg(35, "N_dt_3304"), Asg(39, "N_dt_1652"),
       Asg(45, "N0"), Asg(46, "lambda_decay"), Asg(51, "N_analitik"),
       Fig(56),
       Plt(59, "N_analitik", TRUE, "k-", "2", "Analitik"),
       Plt(62, "N_dt_33035", TRUE, "r--", "default", "dt = 9.18 jam"),
       Plt(63, "N_dt_16518", TRUE, "b--", "default", "dt = 4.59 jam"),
       Plt(64, "N_dt_6607", TRUE, "c--", "default", "dt = 1.84 jam"),
       Plt(65, "N_dt_3304", TRUE, "g--", "default", "dt = 0.92 jam"),
       Plt(66, "N_dt_1652", TRUE, "m--", "default", "dt = 0.46 jam"),
       Txt(69, "xlabel", <<"Waktu (hari)">>),
       Txt(70, "ylabel",
           <<"Jumlah Atom (", "U+00D7", "10", "U+00B9", "U+2074", ")">>),
       Txt(71, "title", <<"Peluruhan Radon-222: Numerik vs Analitik">>),
       Call(72, "legend"), GridCall(73, TRUE, "0.3"), Call(74, "tight_layout"),
       Fig(79),
       Asg(83, "error_33035"), Asg(84, "error_16518"), Asg(85, "error_6607"),
       Asg(86, "error_3304"), Asg(87, "error_1652"),
       Plt(90, "error_33035", FALSE, "r-o", "default", "dt = 9.18 jam"),
       Plt(91, "error_16518", FALSE, "b-s", "default", "dt = 4.59 jam"),
       Plt(92, "error_6607", FALSE, "c-v", "default", "dt = 1.84 jam"),
       Plt(93, "error_3304", FALSE, "g-^", "default", "dt = 0.92 jam"),
       Plt(94, "error_1652", FALSE, "m-d", "default", "dt = 0.46 jam"),
       Txt(97, "xlabel", <<"Waktu (hari)">>),
       Txt(98, "ylabel", <<"Error Relatif (%)">>),
       Txt(99, "title", <<"Error Relatif vs Waktu">>),
       Call(100, "legend"), GridCall(101, TRUE, "0.3"), Call(102, "tight_layout"),
       Call(105, "show") >>

VARIABLES
    pc,             \* index in Script of the next statement
    status,         \* "running", "blocked" (inside plt.show), "done", "error"
    defined,        \* the module-level names bound so far
    waktu, waktu_hari,
    N_dt_33035, N_dt_16518, N_dt_6607, N_dt_3304, N_dt_1652,
    N0, lambda_decay, N_analitik,
    error_33035, error_16518, error_6607, error_3304, error_1652,
    figures,        \* pyplot's figures, in creation order; the last is current
    windows,        \* numbers of the figures on screen
    show_calls,     \* calls of plt.show so far
    backend,        \* "agg" (no display) or "gui"
    interactive     \* matplotlib's interactive mode (rcParams)

data ==
    <<waktu, waktu_hari, N_dt_33035, N_dt_16518, N_dt_6607, N_dt_3304,
      N_dt_1652, N0, lambda_decay, N_analitik,
      error_33035, error_16518, error_6607, error_3304, error_1652>>

plot == <<figures, windows, show_calls>>

env == <<backend, interactive>>

vars == <<pc, status, defined, data, plot, env>>

(* The value bound to an array name *)
Value(name) ==
    CASE name = "waktu"       -> waktu
      [] name = "waktu_hari"  -> waktu_hari
      [] name = "N_dt_33035"  -> N_dt_33035
      [] name = "N_dt_16518"  -> N_dt_16518
      [] name = "N_dt_6607"   -> N_dt_6607
      [] name = "N_dt_3304"   -> N_dt_3304
      [] name = "N_dt_1652"   -> N_dt_1652
      [] name = "N_analitik"  -> N_analitik
      [] name = "error_33035" -> error_33035
      [] name = "error_16518" -> error_16518
      [] name = "error_6607"  -> error_6607
      [] name = "error_3304"  -> error_3304
      [] name = "error_1652"  -> error_1652

Init ==
    /\ pc = 1
    /\ status = "running"
    /\ defined = {}
    /\ waktu = <<>> /\ waktu_hari = <<>>
    /\ N_dt_33035 = <<>> /\ N_dt_16518 = <<>> /\ N_dt_6607 = <<>>
    /\ N_dt_3304 = <<>> /\ N_dt_1652 = <<>>
    /\ N0 = 0 /\ lambda_decay = 0 /\ N_analitik = <<>>
    /\ error_33035 = <<>> /\ error_16518 = <<>> /\ error_6607 = <<>>
    /\ error_3304 = <<>> /\ error_1652 = <<>>
    /\ figures = <<>>
    /\ windows = {}
    /\ show_calls = 0
    /\ backend \in {"agg", "gui"}
    /\ interactive \in BOOLEAN

At(op) == status = "running" /\ pc <= Len(Script) /\ Script[pc].op = op

AtAssign(target) == At("assign") /\ Script[pc].target = target

(* the statement ran: on to the next one; the script ends after the last *)
Advance ==
    /\ pc' = pc + 1
    /\ status' = IF pc = Len(Script) THEN "done" ELSE "running"

Bind(name) == defined' = defined \cup {name}

-----------------------------------------------------------------------------
(* The imports *)

(* import ... as ...: the name is bound, or the module is not installed    *)
(* (ModuleNotFoundError), which the script does not catch: it stops there  *)
(* with nothing more bound.                                                *)
Import ==
    /\ At("import")
    /\ \/ Bind(Script[pc].target) /\ Advance
       \/ /\ status' = "error"
          /\ UNCHANGED <<pc, defined>>
    /\ UNCHANGED <<data, plot, env>>

-----------------------------------------------------------------------------
(* Part 1-3: the data *)

AssignWaktu ==
    /\ AtAssign("waktu")
    /\ waktu' = Array(Literal_waktu, 100)
    /\ Bind("waktu") /\ Advance
    /\ UNCHANGED <<waktu_hari, N_dt_33035, N_dt_16518, N_dt_6607, N_dt_3304,
                   N_dt_1652, N0, lambda_decay, N_analitik, error_33035,
                   error_16518, error_6607, error_3304, error_1652, plot, env>>

(* waktu / (24 * 3600), element by element *)
InDays(w) == [i \in 1..Len(w) |-> DblDivInt(w[i], 24 * 3600)]

AssignWaktuHari ==
    /\ AtAssign("waktu_hari")
    /\ waktu_hari' = InDays(waktu)
    /\ Bind("waktu_hari") /\ Advance
    /\ UNCHANGED <<waktu, N_dt_33035, N_dt_16518, N_dt_6607, N_dt_3304,
                   N_dt_1652, N0, lambda_decay, N_analitik, error_33035,
                   error_16518, error_6607, error_3304, error_1652, plot, env>>

AssignN_dt_33035 ==
    /\ AtAssign("N_dt_33035")
    /\ N_dt_33035' = Literal_N_dt_33035
    /\ Bind("N_dt_33035") /\ Advance
    /\ UNCHANGED <<waktu, waktu_hari, N_dt_16518, N_dt_6607, N_dt_3304,
                   N_dt_1652, N0, lambda_decay, N_analitik, error_33035,
                   error_16518, error_6607, error_3304, error_1652, plot, env>>

AssignN_dt_16518 ==
    /\ AtAssign("N_dt_16518")
    /\ N_dt_16518' = Literal_N_dt_16518
    /\ Bind("N_dt_16518") /\ Advance
    /\ UNCHANGED <<waktu, waktu_hari, N_dt_33035, N_dt_6607, N_dt_3304,
                   N_dt_1652, N0, lambda_decay, N_analitik, error_33035,
                   error_16518, error_6607, error_3304, error_1652, plot, env>>

AssignN_dt_6607 ==
    /\ AtAssign("N_dt_6607")
    /\ N_dt_6607' = Literal_N_dt_6607
    /\ Bind("N_dt_6607") /\ Advance
    /\ UNCHANGED <<waktu, waktu_hari, N_dt_33035, N_dt_16518, N_dt_3304,
                   N_dt_1652, N0, lambda_decay, N_analitik, error_33035,
                   error_16518, error_6607, error_3304, error_1652, plot, env>>

AssignN_dt_3304 ==
    /\ AtAssign("N_dt_3304")
    /\ N_dt_3304' = Literal_N_dt_3304
    /\ Bind("N_dt_3304") /\ Advance
    /\ UNCHANGED <<waktu, waktu_hari, N_dt_33035, N_dt_16518, N_dt_6607,
                   N_dt_1652, N0, lambda_decay, N_analitik, error_33035,
                   error_16518, error_6607, error_3304, error_1652, plot, env>>

AssignN_dt_1652 ==
    /\ AtAssign("N_dt_1652")
    /\ N_dt_1652' = Literal_N_dt_1652
    /\ Bind("N_dt_1652") /\ Advance
    /\ UNCHANGED <<waktu, waktu_hari, N_dt_33035, N_dt_16518, N_dt_6607,
                   N_dt_3304, N0, lambda_decay, N_analitik, error_33035,
                   error_16518, error_6607, error_3304, error_1652, plot, env>>

AssignN0 ==
    /\ AtAssign("N0")
    /\ N0' = Literal_N0
    /\ Bind("N0") /\ Advance
    /\ UNCHANGED <<waktu, waktu_hari, N_dt_33035, N_dt_16518, N_dt_6607,
                   N_dt_3304, N_dt_1652, lambda_decay, N_analitik, error_33035,
                   error_16518, error_6607, error_3304, error_1652, plot, env>>

AssignLambdaDecay ==
    /\ AtAssign("lambda_decay")
    /\ lambda_decay' = Literal_lambda_decay
    /\ Bind("lambda_decay") /\ Advance
    /\ UNCHANGED <<waktu, waktu_hari, N_dt_33035, N_dt_16518, N_dt_6607,
                   N_dt_3304, N_dt_1652, N0, N_analitik, error_33035,
                   error_16518, error_6607, error_3304, error_1652, plot, env>>

AssignN_analitik ==
    /\ AtAssign("N_analitik")
    /\ N_analitik' = Analitik(N0, lambda_decay, waktu)
    /\ Bind("N_analitik") /\ Advance
    /\ UNCHANGED <<waktu, waktu_hari, N_dt_33035, N_dt_16518, N_dt_6607,
                   N_dt_3304, N_dt_1652, N0, lambda_decay, error_33035,
                   error_16518, error_6607, error_3304, error_1652, plot, env>>

-----------------------------------------------------------------------------
(* Part 5: the error tables *)

AssignError_33035 ==
    /\ AtAssign("error_33035")
    /\ error_33035' = Array(Literal_error_33035, 10^4)
    /\ Bind("error_33035") /\ Advance
    /\ UNCHANGED <<waktu, waktu_hari, N_dt_33035, N_dt_16518, N_dt_6607,
                   N_dt_3304, N_dt_1652, N0, lambda_decay, N_analitik,
                   error_16518, error_6607, error_3304, error_1652, plot, env>>

AssignError_16518 ==
    /\ AtAssign("error_16518")
    /\ error_16518' = Array(Literal_error_16518, 10^4)
    /\ Bind("error_16518") /\ Advance
    /\ UNCHANGED <<waktu, waktu_hari, N_dt_33035, N_dt_16518, N_dt_6607,
                   N_dt_3304, N_dt_1652, N0, lambda_decay, N_analitik,
                   error_33035, error_6607, error_3304, error_1652, plot, env>>

AssignError_6607 ==
    /\ AtAssign("error_6607")
    /\ error_6607' = Array(Literal_error_6607, 10^4)
    /\ Bind("error_6607") /\ Advance
    /\ UNCHANGED <<waktu, waktu_hari, N_dt_33035, N_dt_16518, N_dt_6607,
                   N_dt_3304, N_dt_1652, N0, lambda_decay, N_analitik,
                   error_33035, error_16518, error_3304, error_1652, plot, env>>

AssignError_3304 ==
    /\ AtAssign("error_3304")
    /\ error_3304' = Array(Literal_error_3304, 10^4)
    /\ Bind("error_3304") /\ Advance
    /\ UNCHANGED <<waktu, waktu_hari, N_dt_33035, N_dt_16518, N_dt_6607,
                   N_dt_3304, N_dt_1652, N0, lambda_decay, N_analitik,
                   error_33035, error_16518, error_6607, error_1652, plot, env>>

AssignError_1652 ==
    /\ AtAssign("error_1652")
    /\ error_1652' = Array(Literal_error_1652, 10^4)
    /\ Bind("error_1652") /\ Advance
    /\ UNCHANGED <<waktu, waktu_hari, N_dt_33035, N_dt_16518, N_dt_6607,
                   N_dt_3304, N_dt_1652, N0, lambda_decay, N_analitik,
                   error_33035, error_16518, error_6607, error_3304, plot, env>>

-----------------------------------------------------------------------------
(* Part 4-5: pyplot *)

(* the number pyplot gives the next figure: one more than the largest in   *)
(* its registry                                                            *)
RECURSIVE MaxNum(_)
MaxNum(figs) ==
    IF figs = <<>> THEN 0 ELSE Max(figs[1].num, MaxNum(Tail(figs)))

NewFigure(num, figsize) ==
    [num |-> num, figsize |-> figsize, lines |-> <<>>, xlabel |-> <<>>, ylabel |-> <<>>,
     title |-> <<>>, legend |-> <<>>, has_legend |-> FALSE, grid |-> FALSE,
     grid_alpha |-> "default",
     tight |-> FALSE]

(* plt.gcf(): the figures with a current one, made when there is none *)
Gcf(figs) == IF figs = <<>> THEN <<NewFigure(1, <<>>)>> ELSE figs

(* the current figure, and the figures with fig in its place *)
Current(figs) == Gcf(figs)[Len(Gcf(figs))]

SetCurrent(figs, fig) == [Gcf(figs) EXCEPT ![Len(Gcf(figs))] = fig]

(* In interactive mode a GUI backend puts the current figure on screen as  *)
(* soon as a pyplot call touches it.                                       *)
Redraw(figs) ==
    windows' = IF backend = "gui" /\ interactive
               THEN windows \cup {Current(figs).num} ELSE windows

(* N / 1e14 for exact atom counts n * 10^10: the double nearest n / 10^4 *)
Over1e14(N) == [i \in 1..Len(N) |-> Lit(N[i], 10^4)]

(* N / 1e14 for enclosures in units of 10^10, as enclosures in units of    *)
(* 10^-4, widened by one unit for the rounding of the quotient             *)
EnclOver1e14(N) == [i \in 1..Len(N) |-> [lo |-> N[i].lo - 1, hi |-> N[i].hi + 1]]

(* the y argument of a plot statement *)
YData(st) ==
    IF ~st.div THEN Value(st.y)
    ELSE IF st.y = "N_analitik" THEN EnclOver1e14(Value(st.y))
    ELSE Over1e14(Value(st.y))

Line(st) ==
    [x |-> Value(st.x), y |-> YData(st), fmt |-> st.fmt,
     linewidth |-> st.linewidth, label |-> st.label]

(* A fault of the environment (no display, a broken backend) makes the    *)
(* rendering call raise; the script does not catch it and stops there.     *)
Fault ==
    /\ status' = "error"
    /\ UNCHANGED <<pc, figures, windows>>

(* Figure that returns to the existing figure, as plt.figure(1) would *)
Figure_Reuse ==
    /\ At("figure")
    /\ \/ /\ figures' = IF figures = <<>>
                         THEN <<NewFigure(1, Script[pc].figsize)>> ELSE figures
          /\ Redraw(figures')
          /\ Advance
       \/ Fault
    /\ UNCHANGED <<defined, data, show_calls, env>>

(* plt.figure(figsize = ...): a new figure, which becomes the current one *)
Figure ==
    /\ At("figure")
    /\ \/ /\ figures' = Append(figures,
                               NewFigure(MaxNum(figures) + 1, Script[pc].figsize))
          /\ Redraw(figures')
          /\ Advance
       \/ Fault
    /\ UNCHANGED <<defined, data, show_calls, env>>

(* Plot that rescales the analytic series in place (N_analitik /= 1e14)   *)
(* instead of passing a new array                                          *)
Plot_InPlace ==
    /\ At("plot")
    /\ LET ln == Line(Script[pc])
           fig == Current(figures)
           new == [fig EXCEPT !.lines = Append(@, ln)]
       IN  /\ figures' = SetCurrent(figures, new)
           /\ Redraw(figures')
           /\ Advance
           /\ N_analitik' = IF Script[pc].y = "N_analitik"
                            THEN ln.y ELSE N_analitik
    /\ UNCHANGED <<defined, waktu, waktu_hari, N_dt_33035, N_dt_16518,
                   N_dt_6607, N_dt_3304, N_dt_1652, N0, lambda_decay,
                   error_33035, error_16518, error_6607, error_3304,
                   error_1652, show_calls, env>>

(* plt.plot(x, y, ...) raises ValueError when x and y differ in length *)
Plot ==
    /\ At("plot")
    /\ LET ln == Line(Script[pc])
           fig == Current(figures)
           new == [fig EXCEPT !.lines = Append(@, ln)]
       IN  IF Len(ln.x) = Len(ln.y)
           THEN /\ figures' = SetCurrent(figures, new)
                /\ Redraw(figures')
                /\ Advance
           ELSE /\ status' = "error"
                /\ UNCHANGED <<pc, figures, windows>>
    /\ UNCHANGED <<defined, data, show_calls, env>>

Label ==
    /\ \/ At("xlabel") \/ At("ylabel") \/ At("title")
    /\ LET st == Script[pc]
           fig == Current(figures)
           new == CASE st.op = "xlabel" -> [fig EXCEPT !.xlabel = st.text]
                    [] st.op = "ylabel" -> [fig EXCEPT !.ylabel = st.text]
                    [] st.op = "title"  -> [fig EXCEPT !.title = st.text]
       IN  figures' = SetCurrent(figures, new)
    /\ Redraw(figures')
    /\ Advance
    /\ UNCHANGED <<defined, data, show_calls, env>>

(* plt.legend(): one entry per labelled line the axes hold at the call *)
Legend ==
    /\ At("legend")
    /\ LET fig == Current(figures)
           new == [fig EXCEPT !.legend = [i \in 1..Len(fig.lines) |-> fig.lines[i].label],
                              !.has_legend = TRUE]
       IN  figures' = SetCurrent(figures, new)
    /\ Redraw(figures')
    /\ Advance
    /\ UNCHANGED <<defined, data, show_calls, env>>

Grid ==
    /\ At("grid")
    /\ figures' = SetCurrent(figures,
                     [Current(figures) EXCEPT !.grid = Script[pc].visible,
                                              !.grid_alpha = Script[pc].alpha])
    /\ Redraw(figures')
    /\ Advance
    /\ UNCHANGED <<defined, data, show_calls, env>>

TightLayout ==
    /\ At("tight_layout")
    /\ figures' = SetCurrent(figures, [Current(figures) EXCEPT !.tight = TRUE])
    /\ Redraw(figures')
    /\ Advance
    /\ UNCHANGED <<defined, data, show_calls, env>>

(* the numbers of the figures in the registry *)
Nums(figs) == {figs[k].num : k \in 1..Len(figs)}

RECURSIVE Without(_, _)
(* the registry after figure f is destroyed *)
Without(figs, f) ==
    IF figs = <<>> THEN <<>>
    ELSE IF figs[1].num = f THEN Without(Tail(figs), f)
    ELSE <<figs[1]>> \o Without(Tail(figs), f)

(* plt.show(): nothing to display on a non-GUI backend; on a GUI backend   *)
(* every figure is put on screen, and outside interactive mode the call    *)
(* returns only when the last window has been closed.  A fault of the      *)
(* environment makes the call raise.                                       *)
Show ==
    /\ At("show")
    /\ show_calls' = show_calls + 1
    /\ \/ IF backend = "gui"
          THEN /\ windows' = Nums(figures)
               /\ IF interactive \/ figures = <<>>
                  THEN Advance
                  ELSE status' = "blocked" /\ pc' = pc
               /\ UNCHANGED figures
          ELSE /\ Advance
               /\ UNCHANGED <<figures, windows>>
       \/ Fault
    /\ UNCHANGED <<defined, data, env>>

(* the user closes a window while plt.show() blocks: pyplot destroys the   *)
(* figure, and plt.show() returns when the last one is gone                *)
CloseWindow(f) ==
    /\ status = "blocked"
    /\ f \in windows
    /\ windows' = windows \ {f}
    /\ figures' = Without(figures, f)
    /\ IF windows' = {} THEN Advance ELSE UNCHANGED <<pc, status>>
    /\ UNCHANGED <<defined, data, show_calls, env>>

Next ==
    \/ Import
    \/ AssignWaktu \/ AssignWaktuHari
    \/ AssignN_dt_33035 \/ AssignN_dt_16518 \/ AssignN_dt_6607
    \/ AssignN_dt_3304 \/ AssignN_dt_1652
    \/ AssignN0 \/ AssignLambdaDecay \/ AssignN_analitik
    \/ AssignError_33035 \/ AssignError_16518 \/ AssignError_6607
    \/ AssignError_3304 \/ AssignError_1652
    \/ Figure \/ Plot \/ Label \/ Legend \/ Grid \/ TightLayout
    \/ Show
    \/ \E f \in windows : CloseWindow(f)

Spec == Init /\ [][Next]_vars

-----------------------------------------------------------------------------
(* Properties *)

Defd(name) == name \in defined

SimSeries == <<"N_dt_33035", "N_dt_16518", "N_dt_6607", "N_dt_3304", "N_dt_1652">>

ErrorSeries ==
    <<"error_33035", "error_16518", "error_6607", "error_3304", "error_1652">>

AtomSeries == <<"N_analitik">> \o SimSeries

AllDefined == defined = ArrayNames \cup {"N0", "lambda_decay", "plt", "np"}

(* C1: at every timestamp index 1..10 (2..11 here), the error of a series  *)
(* with a larger time-step is at least the error of a series with a        *)
(* smaller time-step.  ErrorSeries lists the series by decreasing step.    *)
C1_ErrorOrdering ==
    \A a, b \in 1..Len(ErrorSeries) :
        (a < b /\ Defd(ErrorSeries[a]) /\ Defd(ErrorSeries[b])) =>
            \A i \in 2..Len(Value(ErrorSeries[a])) :
                DblLeq(Value(ErrorSeries[b])[i], Value(ErrorSeries[a])[i])

C1_Witness ==
    /\ \A a \in 1..Len(ErrorSeries) : Defd(ErrorSeries[a])
    /\ DblLess(error_1652[11], error_33035[11])
    /\ DblLess(error_16518[4], error_33035[4])

(* C2: every simulation series is non-increasing along the time index. *)
C2_SimulationNonIncreasing ==
    \A a \in 1..Len(SimSeries) :
        Defd(SimSeries[a]) =>
            \A i \in 1..(Len(Value(SimSeries[a])) - 1) :
                Value(SimSeries[a])[i + 1] <= Value(SimSeries[a])[i]

C2_Witness ==
    /\ \A a \in 1..Len(SimSeries) : Defd(SimSeries[a])
    /\ N_dt_6607[5] < N_dt_6607[4]
    /\ N_dt_1652[11] < N_dt_1652[1]

(* C3: every series the script has defined holds 11 values, so all the     *)
(* series are index-aligned.                                               *)
C3_AllSeriesLength11 ==
    \A name \in ArrayNames : Defd(name) => Len(Value(name)) = 11

C3_Witness ==
    /\ AllDefined
    /\ Len(waktu_hari) = 11 /\ Len(N_analitik) = 11 /\ Len(error_3304) = 11
    /\ status = "done"

(* C4: the error at t = 0 (index 0, 1 here) is 0.0 in all five series. *)
C4_ErrorZeroAtStart ==
    \A a \in 1..Len(ErrorSeries) :
        Defd(ErrorSeries[a]) => IsZero(Value(ErrorSeries[a])[1])

C4_Witness ==
    /\ \A a \in 1..Len(ErrorSeries) : Defd(ErrorSeries[a])
    /\ IsZero(error_1652[1]) /\ ~IsZero(error_1652[2])

(* C5: the analytic series at the first timestamp, t = 0, is exactly N0. *)
C5_AnalyticStartsAtN0 ==
    Defd("N_analitik") =>
        /\ IsZero(waktu[1])
        /\ N_analitik[1].lo = N0 /\ N_analitik[1].hi = N0
        /\ N0 = Literal_N0

C5_Witness ==
    /\ Defd("N_analitik")
    /\ N_analitik[1] = [lo |-> 100000, hi |-> 100000]
    /\ N_analitik[2].hi < 100000

(* C6: the analytic series is strictly decreasing along the time index:    *)
(* the enclosure of each value lies wholly below that of its predecessor.  *)
C6_AnalyticStrictlyDecreasing ==
    Defd("N_analitik") =>
        \A i \in 1..(Len(N_analitik) - 1) :
            /\ N_analitik[i + 1].lo <= N_analitik[i + 1].hi
            /\ N_analitik[i + 1].hi < N_analitik[i].lo

C6_Witness ==
    /\ Defd("N_analitik")
    /\ Len(N_analitik) = 11
    /\ lambda_decay > 0
    /\ \A i \in 1..10 : DblLess(waktu[i], waktu[i + 1])
    /\ N_analitik[11].hi < N_analitik[10].lo

(* 132140.16 *)
TimeStep == Lit(13214016, 100)

(* waktu starts at 0, ends at 1321401.60 and waktu[i] = i * 132140.16,     *)
(* the product taken in double arithmetic                                  *)
WaktuIsMultiples ==
    /\ Len(waktu) = 11
    /\ IsZero(waktu[1])
    /\ \A i \in 1..11 : DblEq(waktu[i], DblMulInt(i - 1, TimeStep))
    /\ DblEq(waktu[11], Lit(132140160, 100))

(* (waktu[i+1] - waktu[i]) - 132140.16, both differences exact *)
StepDeviation(i) == DblSub(DblSub(waktu[i + 1], waktu[i]), TimeStep)

(* C7 as stated: waktu holds 11 timestamps from 0 to 1321401.60 with       *)
(* waktu[i] = i * 132140.16 and every difference waktu[i+1] - waktu[i]     *)
(* equal to the same constant 132140.16.                                   *)
C7_UniformSpacingExact ==
    Defd("waktu") =>
        /\ WaktuIsMultiples
        /\ \A i \in 1..10 : IsZero(StepDeviation(i))

(* C7 amended: waktu holds 11 timestamps from 0 to 1321401.60 with         *)
(* waktu[i] = i * 132140.16, and every difference waktu[i+1] - waktu[i]    *)
(* is 132140.16 to within 2^-32 s, the rounding of the largest timestamps. *)
C7_UniformSpacingRounded ==
    Defd("waktu") =>
        /\ WaktuIsMultiples
        /\ \A i \in 1..10 :
              LET dv == StepDeviation(i)
              IN  dv.c = 0 /\ Abs(dv.d) <= dv.K * Pow2(dv.s - 32)

C7_Witness ==
    /\ Defd("waktu")
    /\ IsZero(StepDeviation(2))
    /\ ~IsZero(StepDeviation(3))
    /\ StepDeviation(10).d > 0

(* C8: a statement never changes a name that is already bound: every data  *)
(* series, N0 and lambda_decay keep their value from definition on.        *)
C8_DataImmutable ==
    [][ /\ defined \subseteq defined'
        /\ \A name \in defined \cap ArrayNames : Value(name)' = Value(name)
        /\ Defd("N0") => N0' = N0
        /\ Defd("lambda_decay") => lambda_decay' = lambda_decay ]_vars

C8_Witness ==
    /\ AllDefined
    /\ status = "done"
    /\ Len(figures) = 2
    /\ Len(figures[1].lines) = 6 /\ Len(figures[2].lines) = 5
    /\ Len(N_analitik) = 11

AtomLabels ==
    <<"Analitik", "dt = 9.18 jam", "dt = 4.59 jam", "dt = 1.84 jam",
      "dt = 0.92 jam", "dt = 0.46 jam">>

ErrorLabels ==
    <<"dt = 9.18 jam", "dt = 4.59 jam", "dt = 1.84 jam", "dt = 0.92 jam",
      "dt = 0.46 jam">>

(* what figure 1 shows of the atom-count series, figure 2 of the error ones *)
AtomY ==
    [k \in 1..Len(AtomSeries) |->
        IF AtomSeries[k] = "N_analitik" THEN EnclOver1e14(N_analitik)
        ELSE Over1e14(Value(AtomSeries[k]))]

ErrorY == [k \in 1..Len(ErrorSeries) |-> Value(ErrorSeries[k])]

(* the lines of fig are, in order, the first of the given series *)
OnChart(fig, ys, labels) ==
    /\ Len(fig.lines) <= Len(ys)
    /\ \A k \in 1..Len(fig.lines) :
          /\ fig.lines[k].x = waktu_hari
          /\ fig.lines[k].y = ys[k]
          /\ Len(fig.lines[k].y) = 11
          /\ fig.lines[k].label = labels[k]

Complete(fig, ys, labels, ylabel, title) ==
    /\ OnChart(fig, ys, labels)
    /\ Len(fig.lines) = Len(ys)
    /\ fig.xlabel = <<"Waktu (hari)">> /\ fig.ylabel = ylabel /\ fig.title = title
    /\ fig.has_legend /\ fig.legend = labels
    /\ fig.grid /\ fig.grid_alpha = "0.3" /\ fig.tight

(* figure number n is in pyplot's registry; the figure itself *)
HasFig(n) == n \in Nums(figures)

FigOf(n) == figures[CHOOSE k \in 1..Len(figures) : figures[k].num = n]

Figure1Complete ==
    /\ HasFig(1)
    /\ Complete(FigOf(1), AtomY, AtomLabels,
                <<"Jumlah Atom (", "U+00D7", "10", "U+00B9", "U+2074", ")">>,
                <<"Peluruhan Radon-222: Numerik vs Analitik">>)

Figure2Complete ==
    /\ HasFig(2)
    /\ Complete(FigOf(2), ErrorY, ErrorLabels,
                <<"Error Relatif (%)">>, <<"Error Relatif vs Waktu">>)

(* C9: the run makes exactly two figures and calls plt.show once, as its   *)
(* last statement.  Figure 1 only ever holds the six atom-count lines and  *)
(* is complete before figure 2 is made; figure 2 only ever holds the five  *)
(* error lines; when plt.show is called the registry holds exactly the two *)
(* figures, both complete, and a blocking plt.show has every remaining     *)
(* figure on screen, complete, until its window is closed.  A run that     *)
(* stops early stops at an import that failed or at a rendering call that *)
(* raised (plt.figure or plt.show), never at a plot of misaligned series.  *)
C9_TwoChartsShownOnceAtEnd ==
    /\ Nums(figures) \subseteq {1, 2} /\ Len(figures) = Cardinality(Nums(figures))
    /\ HasFig(1) => OnChart(FigOf(1), AtomY, AtomLabels)
    /\ HasFig(2) => OnChart(FigOf(2), ErrorY, ErrorLabels)
    /\ (show_calls = 0 /\ HasFig(2)) => Figure1Complete
    /\ show_calls <= 1
    /\ show_calls = 1 => pc >= Len(Script)
    /\ At("show") =>
          /\ show_calls = 0
          /\ Len(figures) = 2 /\ Figure1Complete /\ Figure2Complete
    /\ show_calls = 1 =>
          /\ HasFig(1) => Figure1Complete
          /\ HasFig(2) => Figure2Complete
    /\ status = "blocked" => (windows = Nums(figures) /\ windows # {})
    /\ status = "done" => (show_calls = 1 /\ pc = Len(Script) + 1)
    /\ status = "error" => Script[pc].op \in {"import", "figure", "show"}

C9_Witness ==
    /\ status = "blocked"
    /\ show_calls = 1
    /\ windows = {1, 2}
    /\ Len(figures) = 2
    /\ Figure1Complete /\ Figure2Complete
    /\ Len(FigOf(1).lines) = 6 /\ Len(FigOf(2).lines) = 5

(* C10: all five simulation series start at N0, and at every later index   *)
(* a series with a smaller time-step holds at least the atom count of a    *)
(* series with a larger one.  SimSeries lists them by decreasing step.     *)
C10_SimulationOrdering ==
    /\ \A a \in 1..Len(SimSeries) :
          (Defd(SimSeries[a]) /\ Defd("N0")) => Value(SimSeries[a])[1] = N0
    /\ \A a, b \in 1..Len(SimSeries) :
          (a < b /\ Defd(SimSeries[a]) /\ Defd(SimSeries[b])) =>
              \A i \in 2..Len(Value(SimSeries[a])) :
                  Value(SimSeries[a])[i] <= Value(SimSeries[b])[i]

C10_Witness ==
    /\ Defd("N0")
    /\ \A a \in 1..Len(SimSeries) : Defd(SimSeries[a])
    /\ N_dt_1652[1] = N0
    /\ N_dt_33035[11] < N_dt_1652[11]
    /\ N_dt_6607[3] < N_dt_3304[3]

====
